---- MODULE Spec2Model ----
(***************************************************************************)
(* CiA 402 device state machine of lib/cia402device/cia402device.c:        *)
(* cia402_initialize and cia402_state_machine acting on one axis record    *)
(* and on the two caller-owned uint16_t slots it points to.                *)
(***************************************************************************)
EXTENDS Integers, Sequences, FiniteSets, TLC

(* ------------------------------------------------------------------ *)
(* Bounds of the model.                                                 *)
(* ------------------------------------------------------------------ *)
\* control words given to cia402_state_machine: the low bits run over
\* 0..MaxControlword (0x0F: every combination of the command bits 0..3),
\* each with bit 7 (fault reset) clear and set
MaxControlword == 15
\* the caller stores in its slots AL_STATUS_OP and the MaxSlotShift values
\* AL_STATUS_OP / 2, / 4, ... (as the link status: OP, SAFEOP, PREOP, INIT;
\* as the status word: one further bit)
MaxSlotShift == 1
\* integers 1..MaxBadState that are no cia402_state_t value are the
\* unrecognized state values of a record that cia402_initialize did not make
MaxBadState == 1
\* calls of cia402_state_machine since cia402_initialize are counted up to MaxRunSteps
MaxRunSteps == 3

(* ------------------------------------------------------------------ *)
(* cia402device.h: the state values double as status word patterns      *)
(* (the code ORs the enumerators into the status word).                 *)
(* ------------------------------------------------------------------ *)
NOT_READY_TO_SWITCH_ON == 0
SWITCH_ON_DISABLED == 64
READY_TO_SWITCH_ON == 33
SWITCHED_ON == 35
OPERATION_ENABLED == 39
QUICK_STOP_ACTIVE == 7
FAULT_REACTION_ACTIVE == 15
FAULT == 8

AL_STATUS_OP == 8

CIA402_CONTROLWORD_SHUTDOWN_MASK == 135
CIA402_CONTROLWORD_SHUTDOWN_COMMAND == 6
CIA402_CONTROLWORD_SWITCH_ON_MASK == 135
CIA402_CONTROLWORD_SWITCH_ON_COMMAND == 7
CIA402_CONTROLWORD_SWITCH_ON_ENABLE_MASK == 143
CIA402_CONTROLWORD_SWITCH_ON_ENABLE_COMMAND == 15
CIA402_CONTROLWORD_DISABLE_VOLTAGE_MASK == 130
CIA402_CONTROLWORD_DISABLE_VOLTAGE_COMMAND == 0
CIA402_CONTROLWORD_QUICK_STOP_MASK == 134
CIA402_CONTROLWORD_QUICK_STOP_COMMAND == 2
CIA402_CONTROLWORD_DISABLE_OPERATION_MASK == 143
CIA402_CONTROLWORD_DISABLE_OPERATION_COMMAND == 7
CIA402_CONTROLWORD_ENABLE_OPERATION_MASK == 143
CIA402_CONTROLWORD_ENABLE_OPERATION_COMMAND == 15
CIA402_CONTROLWORD_FAULT_RESET_MASK == 128
CIA402_CONTROLWORD_FAULT_RESET_COMMAND == 128

\* the eight enumerators of cia402_state_t
States ==
  { NOT_READY_TO_SWITCH_ON, SWITCH_ON_DISABLED, READY_TO_SWITCH_ON, SWITCHED_ON,
    OPERATION_ENABLED, QUICK_STOP_ACTIVE, FAULT_REACTION_ACTIVE, FAULT }

\* the enumerators of the transition type
NO_TRANSITION == "NO_TRANSITION"

Transitions ==
  { NO_TRANSITION,
    "NOT_READY_TO_SWITCH_ON_TO_SWITCH_ON_DISABLED",
    "SWITCH_ON_DISABLED_TO_READY_TO_SWITCH_ON",
    "READY_TO_SWITCH_ON_TO_SWITCH_ON_DISABLED",
    "READY_TO_SWITCH_ON_TO_SWITCHED_ON",
    "READY_TO_SWITCH_ON_TO_OPERATION_ENABLED",
    "SWITCHED_ON_TO_READY_TO_SWITCH_ON",
    "SWITCHED_ON_TO_OPERATION_ENABLED",
    "SWITCHED_ON_TO_SWITCH_ON_DISABLED",
    "OPERATION_ENABLED_TO_SWITCHED_ON",
    "OPERATION_ENABLED_TO_READY_TO_SWITCH_ON",
    "OPERATION_ENABLED_TO_SWITCH_ON_DISABLED",
    "OPERATION_ENABLED_TO_QUICK_STOP_ACTIVE",
    "QUICK_STOP_ACTIVE_TO_SWITCH_ON_DISABLED",
    "QUICK_STOP_ACTIVE_TO_OPERATION_ENABLED",
    "FAULT_REACTION_ACTIVE_TO_FAULT",
    "FAULT_TO_SWITCH_ON_DISABLED" }

(* ------------------------------------------------------------------ *)
(* The C operators & and | on uint16_t values.                          *)
(* ------------------------------------------------------------------ *)
RECURSIVE BitAnd(_, _)
BitAnd(a, b) ==
  IF a = 0 \/ b = 0 THEN 0
  ELSE (a % 2) * (b % 2) + 2 * BitAnd(a \div 2, b \div 2)

RECURSIVE BitOr(_, _)
BitOr(a, b) ==
  IF a = 0 THEN b
  ELSE IF b = 0 THEN a
  ELSE (IF a % 2 = 1 \/ b % 2 = 1 THEN 1 ELSE 0) + 2 * BitOr(a \div 2, b \div 2)

\* #define IS_CIA402_COMMAND(controlword, CMD)
IS_CIA402_COMMAND(controlword, mask, command) == BitAnd(controlword, mask) = command

(* ------------------------------------------------------------------ *)
(* State.                                                               *)
(* ------------------------------------------------------------------ *)
\* the caller's two uint16_t objects whose addresses it passes to cia402_initialize
StatuswordSlot == "statusword"
ALstatusSlot == "ALstatus"
Slots == {StatuswordSlot, ALstatusSlot}

Flags(c, a, h, b) ==
  [config_allowed |-> c, axis_func_enabled |-> a, hv_power_applied |-> h, brake_applied |-> b]

FlagValues ==
  [config_allowed : 0..1, axis_func_enabled : 0..1, hv_power_applied : 0..1, brake_applied : 0..1]

NoEntry == [state |-> -1, flags |-> Flags(0, 0, 0, 0), statusword |-> -1, controlword |-> -1]

VARIABLES
  axis,      \* cia402_axis_t: ALstatus, statusword (pointers), state, transition, flags, prevflags
  mem,       \* contents of the caller's slots
  op,        \* the operation that ran last
  entry,     \* state, flags, *statusword and control word on entry to the last
             \* cia402_state_machine call
  swlog,     \* the values the last cia402_state_machine call OR'ed into *statusword, in order
  run        \* what happened since the last cia402_initialize: steps (calls of
             \* cia402_state_machine, counted up to MaxRunSteps), linkop (every call
             \* read AL_STATUS_OP), scen (rows of the end-to-end scenario followed so
             \* far, -1 once left), path (0, 1 once SWITCH_ON_DISABLED was reached,
             \* 2 once READY_TO_SWITCH_ON was reached after that)

vars == <<axis, mem, op, entry, swlog, run>>

(* ------------------------------------------------------------------ *)
(* cia402_state_machine, statement by statement.  The call works on    *)
(* c = [axis, statusword, ored]: the record, the value of *statusword  *)
(* and the values OR'ed into it so far.                                *)
(* ------------------------------------------------------------------ *)
\* axis->state = s; *(axis->statusword) |= s; axis->transition = t;
Enter(c, s, t) ==
  [c EXCEPT !.axis.state = s, !.axis.transition = t,
            !.statusword = BitOr(@, s), !.ored = Append(@, s)]

\* *(axis->statusword) |= s;   (hold the current state)
Hold(c, s) ==
  [c EXCEPT !.statusword = BitOr(@, s), !.ored = Append(@, s)]

\* variants of the three opening statements with one of them left out
Prologue_NoClear(c) ==
  [c EXCEPT !.axis.transition = NO_TRANSITION, !.axis.prevflags = c.axis.flags]

Prologue_NoTransitionReset(c) ==
  [c EXCEPT !.statusword = 0, !.axis.prevflags = c.axis.flags]

Prologue_NoSnapshot(c) ==
  [c EXCEPT !.statusword = 0, !.axis.transition = NO_TRANSITION]

\* *(axis->statusword) = 0; axis->transition = NO_TRANSITION; axis->prevflags = axis->flags;
Prologue(c) ==
  [c EXCEPT !.statusword = 0, !.axis.transition = NO_TRANSITION,
            !.axis.prevflags = c.axis.flags]

\* variant: the link test inverted
Case_NOT_READY_TO_SWITCH_ON_InvertedLink(c, controlword, al) ==
  IF al # AL_STATUS_OP
  THEN Enter(c, SWITCH_ON_DISABLED, "NOT_READY_TO_SWITCH_ON_TO_SWITCH_ON_DISABLED")
  ELSE Hold(c, NOT_READY_TO_SWITCH_ON)

\* case NOT_READY_TO_SWITCH_ON
Case_NOT_READY_TO_SWITCH_ON(c, controlword, al) ==
  IF al = AL_STATUS_OP
  THEN Enter(c, SWITCH_ON_DISABLED, "NOT_READY_TO_SWITCH_ON_TO_SWITCH_ON_DISABLED")
  ELSE Hold(c, NOT_READY_TO_SWITCH_ON)

\* variant: the state is OR'ed like the status word instead of assigned
Case_SWITCH_ON_DISABLED_OrState(c, controlword, al) ==
  IF IS_CIA402_COMMAND(controlword, CIA402_CONTROLWORD_SHUTDOWN_MASK,
                       CIA402_CONTROLWORD_SHUTDOWN_COMMAND)
     \/ al = AL_STATUS_OP
  THEN Enter(c, BitOr(c.axis.state, READY_TO_SWITCH_ON),
             "SWITCH_ON_DISABLED_TO_READY_TO_SWITCH_ON")
  ELSE Hold(c, SWITCH_ON_DISABLED)

\* variant: && in place of || between the SHUTDOWN test and the link test
Case_SWITCH_ON_DISABLED_AndLink(c, controlword, al) ==
  IF IS_CIA402_COMMAND(controlword, CIA402_CONTROLWORD_SHUTDOWN_MASK,
                       CIA402_CONTROLWORD_SHUTDOWN_COMMAND)
     /\ al = AL_STATUS_OP
  THEN Enter(c, READY_TO_SWITCH_ON, "SWITCH_ON_DISABLED_TO_READY_TO_SWITCH_ON")
  ELSE Hold(c, SWITCH_ON_DISABLED)

\* case SWITCH_ON_DISABLED
Case_SWITCH_ON_DISABLED(c, controlword, al) ==
  IF IS_CIA402_COMMAND(controlword, CIA402_CONTROLWORD_SHUTDOWN_MASK,
                       CIA402_CONTROLWORD_SHUTDOWN_COMMAND)
     \/ al = AL_STATUS_OP
  THEN Enter(c, READY_TO_SWITCH_ON, "SWITCH_ON_DISABLED_TO_READY_TO_SWITCH_ON")
  ELSE Hold(c, SWITCH_ON_DISABLED)

\* variant: without the nested SWITCH_ON_ENABLE test
Case_READY_TO_SWITCH_ON_NoCombined(c, controlword, al) ==
  IF IS_CIA402_COMMAND(controlword, CIA402_CONTROLWORD_DISABLE_VOLTAGE_MASK,
                       CIA402_CONTROLWORD_DISABLE_VOLTAGE_COMMAND)
  THEN Enter(c, SWITCH_ON_DISABLED, "READY_TO_SWITCH_ON_TO_SWITCH_ON_DISABLED")
  ELSE IF IS_CIA402_COMMAND(controlword, CIA402_CONTROLWORD_SWITCH_ON_MASK,
                            CIA402_CONTROLWORD_SWITCH_ON_COMMAND)
  THEN Enter(c, SWITCHED_ON, "READY_TO_SWITCH_ON_TO_SWITCHED_ON")
  ELSE Hold(c, READY_TO_SWITCH_ON)

\* case READY_TO_SWITCH_ON
Case_READY_TO_SWITCH_ON(c, controlword, al) ==
  IF IS_CIA402_COMMAND(controlword, CIA402_CONTROLWORD_DISABLE_VOLTAGE_MASK,
                       CIA402_CONTROLWORD_DISABLE_VOLTAGE_COMMAND)
  THEN Enter(c, SWITCH_ON_DISABLED, "READY_TO_SWITCH_ON_TO_SWITCH_ON_DISABLED")
  ELSE IF IS_CIA402_COMMAND(controlword, CIA402_CONTROLWORD_SWITCH_ON_MASK,
                            CIA402_CONTROLWORD_SWITCH_ON_COMMAND)
  THEN LET c3 == Enter(c, SWITCHED_ON, "READY_TO_SWITCH_ON_TO_SWITCHED_ON")
       IN IF IS_CIA402_COMMAND(controlword, CIA402_CONTROLWORD_SWITCH_ON_ENABLE_MASK,
                               CIA402_CONTROLWORD_SWITCH_ON_ENABLE_COMMAND)
          THEN Enter(c3, OPERATION_ENABLED, "READY_TO_SWITCH_ON_TO_OPERATION_ENABLED")
          ELSE c3
  ELSE Hold(c, READY_TO_SWITCH_ON)

\* case SWITCHED_ON
Case_SWITCHED_ON(c, controlword, al) ==
  IF IS_CIA402_COMMAND(controlword, CIA402_CONTROLWORD_SHUTDOWN_MASK,
                       CIA402_CONTROLWORD_SHUTDOWN_COMMAND)
  THEN Enter(c, READY_TO_SWITCH_ON, "SWITCHED_ON_TO_READY_TO_SWITCH_ON")
  ELSE IF IS_CIA402_COMMAND(controlword, CIA402_CONTROLWORD_ENABLE_OPERATION_MASK,
                            CIA402_CONTROLWORD_ENABLE_OPERATION_COMMAND)
  THEN Enter(c, OPERATION_ENABLED, "SWITCHED_ON_TO_OPERATION_ENABLED")
  ELSE IF IS_CIA402_COMMAND(controlword, CIA402_CONTROLWORD_DISABLE_VOLTAGE_MASK,
                            CIA402_CONTROLWORD_DISABLE_VOLTAGE_COMMAND)
  THEN Enter(c, SWITCH_ON_DISABLED, "SWITCHED_ON_TO_SWITCH_ON_DISABLED")
  ELSE Hold(c, SWITCHED_ON)

\* variant: the QUICK_STOP test placed before the DISABLE_VOLTAGE / link test
Case_OPERATION_ENABLED_QuickStopFirst(c, controlword, al) ==
  IF IS_CIA402_COMMAND(controlword, CIA402_CONTROLWORD_DISABLE_OPERATION_MASK,
                       CIA402_CONTROLWORD_DISABLE_OPERATION_COMMAND)
  THEN Enter(c, SWITCHED_ON, "OPERATION_ENABLED_TO_SWITCHED_ON")
  ELSE IF IS_CIA402_COMMAND(controlword, CIA402_CONTROLWORD_SHUTDOWN_MASK,
                            CIA402_CONTROLWORD_SHUTDOWN_COMMAND)
  THEN Enter(c, READY_TO_SWITCH_ON, "OPERATION_ENABLED_TO_READY_TO_SWITCH_ON")
  ELSE IF IS_CIA402_COMMAND(controlword, CIA402_CONTROLWORD_QUICK_STOP_MASK,
                            CIA402_CONTROLWORD_QUICK_STOP_COMMAND)
  THEN Enter(c, QUICK_STOP_ACTIVE, "OPERATION_ENABLED_TO_QUICK_STOP_ACTIVE")
  ELSE IF IS_CIA402_COMMAND(controlword, CIA402_CONTROLWORD_DISABLE_VOLTAGE_MASK,
                            CIA402_CONTROLWORD_DISABLE_VOLTAGE_COMMAND)
          \/ al # AL_STATUS_OP
  THEN Enter(c, SWITCH_ON_DISABLED, "OPERATION_ENABLED_TO_SWITCH_ON_DISABLED")
  ELSE Hold(c, OPERATION_ENABLED)

\* variant: the link (ALstatus) test dropped from the third guard
Case_OPERATION_ENABLED_NoLinkTest(c, controlword, al) ==
  IF IS_CIA402_COMMAND(controlword, CIA402_CONTROLWORD_DISABLE_OPERATION_MASK,
                       CIA402_CONTROLWORD_DISABLE_OPERATION_COMMAND)
  THEN Enter(c, SWITCHED_ON, "OPERATION_ENABLED_TO_SWITCHED_ON")
  ELSE IF IS_CIA402_COMMAND(controlword, CIA402_CONTROLWORD_SHUTDOWN_MASK,
                            CIA402_CONTROLWORD_SHUTDOWN_COMMAND)
  THEN Enter(c, READY_TO_SWITCH_ON, "OPERATION_ENABLED_TO_READY_TO_SWITCH_ON")
  ELSE IF IS_CIA402_COMMAND(controlword, CIA402_CONTROLWORD_DISABLE_VOLTAGE_MASK,
                            CIA402_CONTROLWORD_DISABLE_VOLTAGE_COMMAND)
  THEN Enter(c, SWITCH_ON_DISABLED, "OPERATION_ENABLED_TO_SWITCH_ON_DISABLED")
  ELSE IF IS_CIA402_COMMAND(controlword, CIA402_CONTROLWORD_QUICK_STOP_MASK,
                            CIA402_CONTROLWORD_QUICK_STOP_COMMAND)
  THEN Enter(c, QUICK_STOP_ACTIVE, "OPERATION_ENABLED_TO_QUICK_STOP_ACTIVE")
  ELSE Hold(c, OPERATION_ENABLED)

\* variant: a lost link is treated as a fault
Case_OPERATION_ENABLED_LinkLossFault(c, controlword, al) ==
  IF IS_CIA402_COMMAND(controlword, CIA402_CONTROLWORD_DISABLE_OPERATION_MASK,
                       CIA402_CONTROLWORD_DISABLE_OPERATION_COMMAND)
  THEN Enter(c, SWITCHED_ON, "OPERATION_ENABLED_TO_SWITCHED_ON")
  ELSE IF IS_CIA402_COMMAND(controlword, CIA402_CONTROLWORD_SHUTDOWN_MASK,
                            CIA402_CONTROLWORD_SHUTDOWN_COMMAND)
  THEN Enter(c, READY_TO_SWITCH_ON, "OPERATION_ENABLED_TO_READY_TO_SWITCH_ON")
  ELSE IF al # AL_STATUS_OP
  THEN Enter(c, FAULT_REACTION_ACTIVE, NO_TRANSITION)
  ELSE IF IS_CIA402_COMMAND(controlword, CIA402_CONTROLWORD_DISABLE_VOLTAGE_MASK,
                            CIA402_CONTROLWORD_DISABLE_VOLTAGE_COMMAND)
  THEN Enter(c, SWITCH_ON_DISABLED, "OPERATION_ENABLED_TO_SWITCH_ON_DISABLED")
  ELSE IF IS_CIA402_COMMAND(controlword, CIA402_CONTROLWORD_QUICK_STOP_MASK,
                            CIA402_CONTROLWORD_QUICK_STOP_COMMAND)
  THEN Enter(c, QUICK_STOP_ACTIVE, "OPERATION_ENABLED_TO_QUICK_STOP_ACTIVE")
  ELSE Hold(c, OPERATION_ENABLED)

\* case OPERATION_ENABLED
Case_OPERATION_ENABLED(c, controlword, al) ==
  IF IS_CIA402_COMMAND(controlword, CIA402_CONTROLWORD_DISABLE_OPERATION_MASK,
                       CIA402_CONTROLWORD_DISABLE_OPERATION_COMMAND)
  THEN Enter(c, SWITCHED_ON, "OPERATION_ENABLED_TO_SWITCHED_ON")
  ELSE IF IS_CIA402_COMMAND(controlword, CIA402_CONTROLWORD_SHUTDOWN_MASK,
                            CIA402_CONTROLWORD_SHUTDOWN_COMMAND)
  THEN Enter(c, READY_TO_SWITCH_ON, "OPERATION_ENABLED_TO_READY_TO_SWITCH_ON")
  ELSE IF IS_CIA402_COMMAND(controlword, CIA402_CONTROLWORD_DISABLE_VOLTAGE_MASK,
                            CIA402_CONTROLWORD_DISABLE_VOLTAGE_COMMAND)
          \/ al # AL_STATUS_OP
  THEN Enter(c, SWITCH_ON_DISABLED, "OPERATION_ENABLED_TO_SWITCH_ON_DISABLED")
  ELSE IF IS_CIA402_COMMAND(controlword, CIA402_CONTROLWORD_QUICK_STOP_MASK,
                            CIA402_CONTROLWORD_QUICK_STOP_COMMAND)
  THEN Enter(c, QUICK_STOP_ACTIVE, "OPERATION_ENABLED_TO_QUICK_STOP_ACTIVE")
  ELSE Hold(c, OPERATION_ENABLED)

\* variant: without the early break, the statements of transition 16 run
Case_QUICK_STOP_ACTIVE_NoBreak(c, controlword, al) ==
  IF IS_CIA402_COMMAND(controlword, CIA402_CONTROLWORD_DISABLE_VOLTAGE_MASK,
                       CIA402_CONTROLWORD_DISABLE_VOLTAGE_COMMAND)
  THEN Enter(c, SWITCH_ON_DISABLED, "QUICK_STOP_ACTIVE_TO_SWITCH_ON_DISABLED")
  ELSE IF IS_CIA402_COMMAND(controlword, CIA402_CONTROLWORD_ENABLE_OPERATION_MASK,
                            CIA402_CONTROLWORD_ENABLE_OPERATION_COMMAND)
  THEN Enter(c, OPERATION_ENABLED, "QUICK_STOP_ACTIVE_TO_OPERATION_ENABLED")
  ELSE Hold(c, QUICK_STOP_ACTIVE)

\* case QUICK_STOP_ACTIVE: the break after the first statement of the
\* ENABLE_OPERATION branch leaves the three statements after it unreachable
Case_QUICK_STOP_ACTIVE(c, controlword, al) ==
  IF IS_CIA402_COMMAND(controlword, CIA402_CONTROLWORD_DISABLE_VOLTAGE_MASK,
                       CIA402_CONTROLWORD_DISABLE_VOLTAGE_COMMAND)
  THEN Enter(c, SWITCH_ON_DISABLED, "QUICK_STOP_ACTIVE_TO_SWITCH_ON_DISABLED")
  ELSE IF IS_CIA402_COMMAND(controlword, CIA402_CONTROLWORD_ENABLE_OPERATION_MASK,
                            CIA402_CONTROLWORD_ENABLE_OPERATION_COMMAND)
  THEN Hold(c, QUICK_STOP_ACTIVE)
  ELSE Hold(c, QUICK_STOP_ACTIVE)

\* case FAULT_REACTION_ACTIVE
Case_FAULT_REACTION_ACTIVE(c, controlword, al) ==
  Enter(c, FAULT, "FAULT_REACTION_ACTIVE_TO_FAULT")

\* case FAULT
Case_FAULT(c, controlword, al) ==
  IF IS_CIA402_COMMAND(controlword, CIA402_CONTROLWORD_FAULT_RESET_MASK,
                       CIA402_CONTROLWORD_FAULT_RESET_COMMAND)
  THEN Enter(c, SWITCH_ON_DISABLED, "FAULT_TO_SWITCH_ON_DISABLED")
  ELSE Hold(c, FAULT)

\* variant: the state is reset but the flags are left as they are
Case_default_KeepFlags(c, controlword, al) ==
  Enter(c, NOT_READY_TO_SWITCH_ON, NO_TRANSITION)

\* default: an unrecognized state value
Case_default(c, controlword, al) ==
  [Enter(c, NOT_READY_TO_SWITCH_ON, NO_TRANSITION)
     EXCEPT !.axis.flags = Flags(0, 0, 0, 0)]

\* switch (axis->state): the transition evaluator
Dispatch(c, controlword, al) ==
  CASE c.axis.state = NOT_READY_TO_SWITCH_ON -> Case_NOT_READY_TO_SWITCH_ON(c, controlword, al)
    [] c.axis.state = SWITCH_ON_DISABLED     -> Case_SWITCH_ON_DISABLED(c, controlword, al)
    [] c.axis.state = READY_TO_SWITCH_ON     -> Case_READY_TO_SWITCH_ON(c, controlword, al)
    [] c.axis.state = SWITCHED_ON            -> Case_SWITCHED_ON(c, controlword, al)
    [] c.axis.state = OPERATION_ENABLED      -> Case_OPERATION_ENABLED(c, controlword, al)
    [] c.axis.state = QUICK_STOP_ACTIVE      -> Case_QUICK_STOP_ACTIVE(c, controlword, al)
    [] c.axis.state = FAULT_REACTION_ACTIVE  -> Case_FAULT_REACTION_ACTIVE(c, controlword, al)
    [] c.axis.state = FAULT                  -> Case_FAULT(c, controlword, al)
    [] OTHER                                 -> Case_default(c, controlword, al)

\* variant: config_allowed stays 0 in SWITCH_ON_DISABLED and READY_TO_SWITCH_ON
UpdateFlags_NoConfigAllowed(c) ==
  CASE c.axis.state \in {SWITCH_ON_DISABLED, READY_TO_SWITCH_ON} ->
         [c EXCEPT !.axis.flags = Flags(0, 0, 0, 1)]
    [] c.axis.state = SWITCHED_ON ->
         [c EXCEPT !.axis.flags = Flags(1, 0, 1, 1)]
    [] c.axis.state \in {OPERATION_ENABLED, QUICK_STOP_ACTIVE} ->
         [c EXCEPT !.axis.flags = Flags(0, 1, 1, 0)]
    [] c.axis.state = FAULT ->
         [c EXCEPT !.axis.flags = Flags(1, 0, 0, 0)]
    [] OTHER -> c

\* variant: SWITCHED_ON shares the flags of the two states before it
UpdateFlags_SwitchedOnNoPower(c) ==
  CASE c.axis.state \in {SWITCH_ON_DISABLED, READY_TO_SWITCH_ON, SWITCHED_ON} ->
         [c EXCEPT !.axis.flags = Flags(1, 0, 0, 1)]
    [] c.axis.state \in {OPERATION_ENABLED, QUICK_STOP_ACTIVE} ->
         [c EXCEPT !.axis.flags = Flags(0, 1, 1, 0)]
    [] c.axis.state = FAULT ->
         [c EXCEPT !.axis.flags = Flags(1, 0, 0, 0)]
    [] OTHER -> c

\* the second switch (axis->state): the flags of the resulting state
UpdateFlags(c) ==
  CASE c.axis.state \in {SWITCH_ON_DISABLED, READY_TO_SWITCH_ON} ->
         [c EXCEPT !.axis.flags = Flags(1, 0, 0, 1)]
    [] c.axis.state = SWITCHED_ON ->
         [c EXCEPT !.axis.flags = Flags(1, 0, 1, 1)]
    [] c.axis.state \in {OPERATION_ENABLED, QUICK_STOP_ACTIVE} ->
         [c EXCEPT !.axis.flags = Flags(0, 1, 1, 0)]
    [] c.axis.state = FAULT ->
         [c EXCEPT !.axis.flags = Flags(1, 0, 0, 0)]
    [] OTHER -> c

\* the whole body of cia402_state_machine on the record a, with *statusword = sw
\* and *ALstatus = al on entry
StateMachineBody(a, sw, al, controlword) ==
  UpdateFlags(Dispatch(Prologue([axis |-> a, statusword |-> sw, ored |-> <<>>]),
                       controlword, al))

(* ------------------------------------------------------------------ *)
(* Operations.                                                          *)
(* ------------------------------------------------------------------ *)
\* variant: without the last statement (prevflags = flags)
cia402_initialize_NoPrevflags(statusword, ALstatus) ==
  /\ axis' = [ALstatus |-> ALstatus, statusword |-> statusword,
              state |-> NOT_READY_TO_SWITCH_ON, transition |-> NO_TRANSITION,
              flags |-> Flags(0, 0, 0, 0), prevflags |-> axis.prevflags]
  /\ op' = "cia402_initialize"
  /\ entry' = NoEntry
  /\ swlog' = <<>>
  /\ UNCHANGED mem

\* void cia402_initialize(axis, statusword, ALstatus)
cia402_initialize(statusword, ALstatus) ==
  /\ axis' = [ALstatus |-> ALstatus, statusword |-> statusword,
              state |-> NOT_READY_TO_SWITCH_ON, transition |-> NO_TRANSITION,
              flags |-> Flags(0, 0, 0, 0), prevflags |-> Flags(0, 0, 0, 0)]
  /\ op' = "cia402_initialize"
  /\ entry' = NoEntry
  /\ swlog' = <<>>
  /\ UNCHANGED mem

\* void cia402_state_machine(axis, controlword)
cia402_state_machine(controlword) ==
  LET c == StateMachineBody(axis, mem[axis.statusword], mem[axis.ALstatus], controlword)
  IN /\ axis' = c.axis
     /\ mem' = [mem EXCEPT ![axis.statusword] = c.statusword]
     /\ op' = "cia402_state_machine"
     /\ entry' = [state |-> axis.state, flags |-> axis.flags,
                  statusword |-> mem[axis.statusword], controlword |-> controlword]
     /\ swlog' = c.ored

\* the caller (the fieldbus stack) stores a value in one of its slots between calls:
\* a new link status, or further bits of the status word
CallerWrite(slot, value) ==
  /\ mem[slot] # value
  /\ mem' = [mem EXCEPT ![slot] = value]
  /\ op' = "caller"
  /\ entry' = NoEntry
  /\ swlog' = <<>>
  /\ UNCHANGED axis

\* the run record right after cia402_initialize
RunStart == [steps |-> 0, linkop |-> TRUE, scen |-> 0, path |-> 0]
\* the run record of a record that cia402_initialize did not make
NoRun == [steps |-> -1, linkop |-> FALSE, scen |-> -1, path |-> -1]

\* the end-to-end scenario of the specification (section 8), link operational
\* throughout: any word, a SHUTDOWN word, a SWITCH_ON + SWITCH_ON_ENABLE word,
\* a QUICK_STOP word, a DISABLE_VOLTAGE word
ScenarioNext(k, controlword, al) ==
  IF al # AL_STATUS_OP THEN -1
  ELSE CASE k = 0 -> 1
         [] k = 1 /\ IS_CIA402_COMMAND(controlword, CIA402_CONTROLWORD_SHUTDOWN_MASK,
                                       CIA402_CONTROLWORD_SHUTDOWN_COMMAND) -> 2
         [] k = 2 /\ IS_CIA402_COMMAND(controlword, CIA402_CONTROLWORD_SWITCH_ON_MASK,
                                       CIA402_CONTROLWORD_SWITCH_ON_COMMAND)
                  /\ IS_CIA402_COMMAND(controlword, CIA402_CONTROLWORD_SWITCH_ON_ENABLE_MASK,
                                       CIA402_CONTROLWORD_SWITCH_ON_ENABLE_COMMAND) -> 3
         [] k = 3 /\ IS_CIA402_COMMAND(controlword, CIA402_CONTROLWORD_QUICK_STOP_MASK,
                                       CIA402_CONTROLWORD_QUICK_STOP_COMMAND) -> 4
         [] k = 4 /\ IS_CIA402_COMMAND(controlword, CIA402_CONTROLWORD_DISABLE_VOLTAGE_MASK,
                                       CIA402_CONTROLWORD_DISABLE_VOLTAGE_COMMAND) -> 5
         [] OTHER -> -1

\* the run record after a call with the given control word and link status that
\* left the state s
RunStep(r, controlword, al, s) ==
  IF r.steps < 0 THEN r
  ELSE [steps  |-> IF r.steps < MaxRunSteps THEN r.steps + 1 ELSE r.steps,
        linkop |-> r.linkop /\ al = AL_STATUS_OP,
        scen   |-> ScenarioNext(r.scen, controlword, al),
        path   |-> IF r.path = 0 /\ s = SWITCH_ON_DISABLED THEN 1
                   ELSE IF r.path = 1 /\ s = READY_TO_SWITCH_ON THEN 2
                   ELSE r.path]

ControlwordInputs == (0..MaxControlword) \cup {128 + k : k \in 0..MaxControlword}
SlotValues == {AL_STATUS_OP \div (2^k) : k \in 0..MaxSlotShift}

\* the record right after cia402_initialize, the slots holding what the caller put there
Init ==
  /\ axis = [ALstatus |-> ALstatusSlot, statusword |-> StatuswordSlot,
             state |-> NOT_READY_TO_SWITCH_ON, transition |-> NO_TRANSITION,
             flags |-> Flags(0, 0, 0, 0), prevflags |-> Flags(0, 0, 0, 0)]
  /\ mem \in [Slots -> SlotValues]
  /\ op = "cia402_initialize"
  /\ entry = NoEntry
  /\ swlog = <<>>
  /\ run = RunStart

Next ==
  \/ /\ cia402_initialize(StatuswordSlot, ALstatusSlot)
     /\ run' = RunStart
  \/ \E controlword \in ControlwordInputs :
       /\ cia402_state_machine(controlword)
       /\ run' = RunStep(run, controlword, mem[axis.ALstatus], axis'.state)
  \/ \E slot \in Slots, value \in SlotValues :
       /\ CallerWrite(slot, value)
       /\ UNCHANGED run

Spec == Init /\ [][Next]_vars

\* state values a record can hold: the enumerators and the unrecognized values
StateValues == States \cup {v \in 1..MaxBadState : v \notin States}

\* a record that did not come from cia402_initialize (corrupted, or used without
\* initialization): state and flags hold any value, the two pointers are bound
InitAny ==
  /\ \E s \in StateValues, f \in FlagValues,
        t \in {NO_TRANSITION, "QUICK_STOP_ACTIVE_TO_OPERATION_ENABLED"} :
       axis = [ALstatus |-> ALstatusSlot, statusword |-> StatuswordSlot,
               state |-> s, transition |-> t,
               flags |-> f, prevflags |-> Flags(0, 0, 0, 0)]
  /\ mem \in [Slots -> SlotValues]
  /\ op = "none"
  /\ entry = NoEntry
  /\ swlog = <<>>
  /\ run = NoRun

SpecAny == InitAny /\ [][Next]_vars

TypeOK ==
  /\ axis.state \in Nat
  /\ axis.transition \in Transitions
  /\ axis.flags \in FlagValues
  /\ axis.prevflags \in FlagValues
  /\ mem \in [Slots -> Nat]

(* ------------------------------------------------------------------ *)
(* The command tests as cia402_state_machine writes them.               *)
(* ------------------------------------------------------------------ *)
IsShutdown(cw) ==
  IS_CIA402_COMMAND(cw, CIA402_CONTROLWORD_SHUTDOWN_MASK, CIA402_CONTROLWORD_SHUTDOWN_COMMAND)
IsSwitchOn(cw) ==
  IS_CIA402_COMMAND(cw, CIA402_CONTROLWORD_SWITCH_ON_MASK, CIA402_CONTROLWORD_SWITCH_ON_COMMAND)
IsSwitchOnEnable(cw) ==
  IS_CIA402_COMMAND(cw, CIA402_CONTROLWORD_SWITCH_ON_ENABLE_MASK,
                    CIA402_CONTROLWORD_SWITCH_ON_ENABLE_COMMAND)
IsDisableVoltage(cw) ==
  IS_CIA402_COMMAND(cw, CIA402_CONTROLWORD_DISABLE_VOLTAGE_MASK,
                    CIA402_CONTROLWORD_DISABLE_VOLTAGE_COMMAND)
IsQuickStop(cw) ==
  IS_CIA402_COMMAND(cw, CIA402_CONTROLWORD_QUICK_STOP_MASK, CIA402_CONTROLWORD_QUICK_STOP_COMMAND)
IsDisableOperation(cw) ==
  IS_CIA402_COMMAND(cw, CIA402_CONTROLWORD_DISABLE_OPERATION_MASK,
                    CIA402_CONTROLWORD_DISABLE_OPERATION_COMMAND)
IsEnableOperation(cw) ==
  IS_CIA402_COMMAND(cw, CIA402_CONTROLWORD_ENABLE_OPERATION_MASK,
                    CIA402_CONTROLWORD_ENABLE_OPERATION_COMMAND)
IsFaultReset(cw) ==
  IS_CIA402_COMMAND(cw, CIA402_CONTROLWORD_FAULT_RESET_MASK, CIA402_CONTROLWORD_FAULT_RESET_COMMAND)

(* ------------------------------------------------------------------ *)
(* What the last call saw and left.                                     *)
(* ------------------------------------------------------------------ *)
\* the last operation was a call of cia402_state_machine
Stepped == op = "cia402_state_machine"
\* the link status the last call read (the call does not write that slot)
LinkStatus == mem[axis.ALstatus]
\* the status word the last call left
StatusWord == mem[axis.statusword]

(* ------------------------------------------------------------------ *)
(* The transition table of the specification (section 4.2), row by row: *)
(* <<guard, next state>> in priority order for each current state.      *)
(* ------------------------------------------------------------------ *)
StateName(s) ==
  CASE s = NOT_READY_TO_SWITCH_ON -> "NOT_READY_TO_SWITCH_ON"
    [] s = SWITCH_ON_DISABLED     -> "SWITCH_ON_DISABLED"
    [] s = READY_TO_SWITCH_ON     -> "READY_TO_SWITCH_ON"
    [] s = SWITCHED_ON            -> "SWITCHED_ON"
    [] s = OPERATION_ENABLED      -> "OPERATION_ENABLED"
    [] s = QUICK_STOP_ACTIVE      -> "QUICK_STOP_ACTIVE"
    [] s = FAULT_REACTION_ACTIVE  -> "FAULT_REACTION_ACTIVE"
    [] s = FAULT                  -> "FAULT"

\* the tag that names the edge from state s to state t
TagOf(s, t) == StateName(s) \o "_TO_" \o StateName(t)

TableRows(s, cw, al) ==
  CASE s = NOT_READY_TO_SWITCH_ON ->
         << <<al = AL_STATUS_OP, SWITCH_ON_DISABLED>> >>
    [] s = SWITCH_ON_DISABLED ->
         << <<IsShutdown(cw) \/ al = AL_STATUS_OP, READY_TO_SWITCH_ON>> >>
    [] s = READY_TO_SWITCH_ON ->
         << <<IsDisableVoltage(cw), SWITCH_ON_DISABLED>>,
            <<IsSwitchOn(cw) /\ IsSwitchOnEnable(cw), OPERATION_ENABLED>>,
            <<IsSwitchOn(cw), SWITCHED_ON>> >>
    [] s = SWITCHED_ON ->
         << <<IsShutdown(cw), READY_TO_SWITCH_ON>>,
            <<IsEnableOperation(cw), OPERATION_ENABLED>>,
            <<IsDisableVoltage(cw), SWITCH_ON_DISABLED>> >>
    [] s = OPERATION_ENABLED ->
         << <<IsDisableOperation(cw), SWITCHED_ON>>,
            <<IsShutdown(cw), READY_TO_SWITCH_ON>>,
            <<IsDisableVoltage(cw) \/ al # AL_STATUS_OP, SWITCH_ON_DISABLED>>,
            <<IsQuickStop(cw), QUICK_STOP_ACTIVE>> >>
    [] s = QUICK_STOP_ACTIVE ->
         << <<IsDisableVoltage(cw), SWITCH_ON_DISABLED>>,
            <<IsEnableOperation(cw), QUICK_STOP_ACTIVE>> >>
    [] s = FAULT_REACTION_ACTIVE ->
         << <<TRUE, FAULT>> >>
    [] s = FAULT ->
         << <<IsFaultReset(cw), SWITCH_ON_DISABLED>> >>

\* <<next state, transition>> of the first row whose guard holds;
\* <<s, NO_TRANSITION>> when none holds or the row keeps the state
TableStep(s, cw, al) ==
  LET rows == TableRows(s, cw, al)
      hit == {i \in 1..Len(rows) : rows[i][1]}
  IN IF hit = {} THEN <<s, NO_TRANSITION>>
     ELSE LET first == CHOOSE i \in hit : \A j \in hit : i <= j
              t == rows[first][2]
          IN IF t = s THEN <<s, NO_TRANSITION>> ELSE <<t, TagOf(s, t)>>

(* ------------------------------------------------------------------ *)
(* C1                                                                   *)
(* ------------------------------------------------------------------ *)
\* C1: for every defined current state, control word and link status, one call of
\* cia402_state_machine leaves the next state and the transition tag of the first
\* guard of the specification's table (top to bottom) that the inputs satisfy, and
\* the unchanged state with NO_TRANSITION when none is satisfied.
C1_FirstMatchingGuardWins ==
  (Stepped /\ entry.state \in States) =>
     <<axis.state, axis.transition>> = TableStep(entry.state, entry.controlword, LinkStatus)

\* a call from OPERATION_ENABLED whose inputs satisfy the first guard (DisableOperation)
\* and the third (link not operational) and that took the first
C1_Witness ==
  /\ Stepped
  /\ entry.state = OPERATION_ENABLED
  /\ IsDisableOperation(entry.controlword)
  /\ LinkStatus # AL_STATUS_OP
  /\ axis.state = SWITCHED_ON
  /\ axis.transition = "OPERATION_ENABLED_TO_SWITCHED_ON"

(* ------------------------------------------------------------------ *)
(* C2                                                                   *)
(* ------------------------------------------------------------------ *)
\* C2: after any call, from any record and whatever *statusword held on entry, the
\* status word equals the indicator pattern of the resulting state: it is the
\* pattern of exactly one of the eight states and carries nothing else.
C2_StatusWordIsPatternOfResultingState ==
  Stepped =>
     /\ StatusWord = axis.state
     /\ Cardinality({s \in States : StatusWord = s}) = 1

\* a call entered with a caller-set bit in *statusword that the resulting
\* state's pattern does not contain
C2_Witness ==
  /\ Stepped
  /\ entry.statusword > 0
  /\ BitAnd(entry.statusword, axis.state) = 0
  /\ StatusWord = axis.state

(* ------------------------------------------------------------------ *)
(* C3                                                                   *)
(* ------------------------------------------------------------------ *)
\* the flag table of the specification (section 4.3), keyed on the resulting state
FlagRow(s) ==
  CASE s \in {SWITCH_ON_DISABLED, READY_TO_SWITCH_ON} -> Flags(1, 0, 0, 1)
    [] s = SWITCHED_ON                                -> Flags(1, 0, 1, 1)
    [] s \in {OPERATION_ENABLED, QUICK_STOP_ACTIVE}   -> Flags(0, 1, 1, 0)
    [] s = FAULT                                      -> Flags(1, 0, 0, 0)
    [] s = NOT_READY_TO_SWITCH_ON                     -> Flags(0, 0, 0, 0)

\* C3: in every state reachable from cia402_initialize by calls of
\* cia402_state_machine, the four flags after a call are the flag-table row of the
\* resulting state, whatever the state before and the transition taken.
C3_FlagsAreRowOfResultingState ==
  Stepped =>
     /\ axis.state \in States \ {FAULT_REACTION_ACTIVE}
     /\ axis.flags = FlagRow(axis.state)

\* SWITCHED_ON reached from OPERATION_ENABLED (flags 0,1,1,0 before) has the
\* SWITCHED_ON row
C3_Witness ==
  /\ Stepped
  /\ entry.state = OPERATION_ENABLED
  /\ entry.flags = Flags(0, 1, 1, 0)
  /\ axis.state = SWITCHED_ON
  /\ axis.flags = Flags(1, 0, 1, 1)

(* ------------------------------------------------------------------ *)
(* C4                                                                   *)
(* ------------------------------------------------------------------ *)
\* the inputs of the combined transition: READY_TO_SWITCH_ON with a control word
\* that matches SWITCH_ON and SWITCH_ON_ENABLE and not DISABLE_VOLTAGE
CombinedCase ==
  /\ Stepped
  /\ entry.state = READY_TO_SWITCH_ON
  /\ IsSwitchOn(entry.controlword)
  /\ IsSwitchOnEnable(entry.controlword)
  /\ ~IsDisableVoltage(entry.controlword)

\* C4: one call from READY_TO_SWITCH_ON with a control word matching SWITCH_ON and
\* SWITCH_ON_ENABLE (and not DISABLE_VOLTAGE) ends in OPERATION_ENABLED with the
\* tag READY_TO_SWITCH_ON_TO_OPERATION_ENABLED and the flags of OPERATION_ENABLED;
\* the call does not leave SWITCHED_ON as the state.
C4_CombinedTransition ==
  CombinedCase =>
     /\ axis.state = OPERATION_ENABLED
     /\ axis.state # SWITCHED_ON
     /\ axis.transition = "READY_TO_SWITCH_ON_TO_OPERATION_ENABLED"
     /\ axis.transition # "READY_TO_SWITCH_ON_TO_SWITCHED_ON"
     /\ axis.flags = Flags(0, 1, 1, 0)

C4_Witness ==
  /\ CombinedCase
  /\ axis.state = OPERATION_ENABLED
  /\ axis.transition = "READY_TO_SWITCH_ON_TO_OPERATION_ENABLED"

(* ------------------------------------------------------------------ *)
(* C5                                                                   *)
(* ------------------------------------------------------------------ *)
\* OPERATION_ENABLED with the DISABLE_VOLTAGE guard (command, or link not
\* operational) and the QUICK_STOP guard both satisfied and neither
\* DISABLE_OPERATION nor SHUTDOWN matching
DisableVoltageAndQuickStop ==
  /\ Stepped
  /\ entry.state = OPERATION_ENABLED
  /\ (IsDisableVoltage(entry.controlword) \/ LinkStatus # AL_STATUS_OP)
  /\ IsQuickStop(entry.controlword)
  /\ ~IsDisableOperation(entry.controlword)
  /\ ~IsShutdown(entry.controlword)

\* C5: from OPERATION_ENABLED, when the inputs satisfy the DISABLE_VOLTAGE guard and
\* the QUICK_STOP guard and neither DISABLE_OPERATION nor SHUTDOWN matches, the call
\* goes to SWITCH_ON_DISABLED with OPERATION_ENABLED_TO_SWITCH_ON_DISABLED, never to
\* QUICK_STOP_ACTIVE.
C5_DisableVoltageBeatsQuickStop ==
  DisableVoltageAndQuickStop =>
     /\ axis.state = SWITCH_ON_DISABLED
     /\ axis.state # QUICK_STOP_ACTIVE
     /\ axis.transition = "OPERATION_ENABLED_TO_SWITCH_ON_DISABLED"

C5_Witness ==
  /\ DisableVoltageAndQuickStop
  /\ axis.state = SWITCH_ON_DISABLED
  /\ axis.transition = "OPERATION_ENABLED_TO_SWITCH_ON_DISABLED"

(* ------------------------------------------------------------------ *)
(* C6                                                                   *)
(* ------------------------------------------------------------------ *)
\* C6: quick-stop lock.  From QUICK_STOP_ACTIVE, for every link status, a control
\* word matching ENABLE_OPERATION (and not DISABLE_VOLTAGE) leaves the state
\* QUICK_STOP_ACTIVE with NO_TRANSITION; no call records
\* QUICK_STOP_ACTIVE_TO_OPERATION_ENABLED; and the only other state a call from
\* QUICK_STOP_ACTIVE produces is SWITCH_ON_DISABLED, on DISABLE_VOLTAGE.
C6_QuickStopLock ==
  Stepped =>
     /\ axis.transition # "QUICK_STOP_ACTIVE_TO_OPERATION_ENABLED"
     /\ entry.state = QUICK_STOP_ACTIVE =>
          /\ axis.state \in {QUICK_STOP_ACTIVE, SWITCH_ON_DISABLED}
          /\ axis.state = SWITCH_ON_DISABLED => IsDisableVoltage(entry.controlword)
          /\ (IsEnableOperation(entry.controlword) /\ ~IsDisableVoltage(entry.controlword)) =>
               (axis.state = QUICK_STOP_ACTIVE /\ axis.transition = NO_TRANSITION)

\* a call from QUICK_STOP_ACTIVE with ENABLE_OPERATION that held the state
C6_Witness ==
  /\ Stepped
  /\ entry.state = QUICK_STOP_ACTIVE
  /\ IsEnableOperation(entry.controlword)
  /\ ~IsDisableVoltage(entry.controlword)
  /\ axis.state = QUICK_STOP_ACTIVE
  /\ axis.transition = NO_TRANSITION

(* ------------------------------------------------------------------ *)
(* C7                                                                   *)
(* ------------------------------------------------------------------ *)
\* C7: after any call on a record reachable from cia402_initialize, the transition
\* is NO_TRANSITION if and only if the state after the call equals the state before
\* it, and otherwise it is the tag naming that (before, after) pair; so no tag of an
\* earlier call survives a call that held the state.
C7_TransitionNamesTheStateChange ==
  Stepped =>
     /\ (axis.transition = NO_TRANSITION) <=> (axis.state = entry.state)
     /\ axis.state # entry.state => axis.transition = TagOf(entry.state, axis.state)

\* a call that held QUICK_STOP_ACTIVE, a state only earlier tagged calls lead to
C7_Witness ==
  /\ Stepped
  /\ entry.state = QUICK_STOP_ACTIVE
  /\ axis.state = QUICK_STOP_ACTIVE
  /\ axis.transition = NO_TRANSITION

(* ------------------------------------------------------------------ *)
(* C8                                                                   *)
(* ------------------------------------------------------------------ *)
\* C8: after every call, prevflags holds the value the four flags had on entry to
\* that call, on every path including the default (unrecognized state) arm; so
\* flags differs from prevflags exactly when the call changed a flag.
C8_PrevflagsIsEntrySnapshot ==
  Stepped =>
     /\ axis.prevflags = entry.flags
     /\ (axis.flags # axis.prevflags) <=> (axis.flags # entry.flags)

\* the default arm taken with some flag set on entry: prevflags keeps the
\* entry flags, flags are cleared
C8_Witness ==
  /\ Stepped
  /\ entry.state \notin States
  /\ entry.flags = Flags(1, 0, 1, 1)
  /\ axis.prevflags = Flags(1, 0, 1, 1)
  /\ axis.flags = Flags(0, 0, 0, 0)

(* ------------------------------------------------------------------ *)
(* C9                                                                   *)
(* ------------------------------------------------------------------ *)
\* the last call found an unrecognized state value
Recovered == Stepped /\ entry.state \notin States

\* C9: recovery path.  A call on a record whose state is none of the eight states
\* leaves, for every control word, link status and flags, the state
\* NOT_READY_TO_SWITCH_ON, all four flags 0, NO_TRANSITION and the
\* NOT_READY_TO_SWITCH_ON status pattern; the call after it runs from
\* NOT_READY_TO_SWITCH_ON as the transition table says.
C9_RecoveryPath ==
  [][ /\ Recovered' =>
           /\ axis'.state = NOT_READY_TO_SWITCH_ON
           /\ axis'.flags = Flags(0, 0, 0, 0)
           /\ axis'.transition = NO_TRANSITION
           /\ StatusWord' = NOT_READY_TO_SWITCH_ON
      /\ (Recovered /\ Stepped') =>
           /\ entry'.state = NOT_READY_TO_SWITCH_ON
           /\ <<axis'.state, axis'.transition>> =
                 TableStep(NOT_READY_TO_SWITCH_ON, entry'.controlword, LinkStatus')
           /\ axis'.flags = FlagRow(axis'.state)
    ]_vars

\* the default arm taken with every flag set and a stale status word
C9_Witness ==
  /\ Recovered
  /\ entry.flags = Flags(1, 1, 1, 1)
  /\ entry.statusword > 0
  /\ axis.state = NOT_READY_TO_SWITCH_ON
  /\ axis.flags = Flags(0, 0, 0, 0)
  /\ StatusWord = NOT_READY_TO_SWITCH_ON

(* ------------------------------------------------------------------ *)
(* C10                                                                  *)
(* ------------------------------------------------------------------ *)
\* C10: in normal operation (cia402_initialize, then calls of cia402_state_machine
\* with any control words and link status values) the state is always one of the
\* eight states and no call takes the default arm.
C10_StateAlwaysDefined ==
  /\ axis.state \in States
  /\ Stepped => entry.state \in States

\* a run from cia402_initialize that got as far as QUICK_STOP_ACTIVE
C10_Witness ==
  /\ Stepped
  /\ entry.state = OPERATION_ENABLED
  /\ axis.state = QUICK_STOP_ACTIVE

(* ------------------------------------------------------------------ *)
(* C11                                                                  *)
(* ------------------------------------------------------------------ *)
\* the last operation was cia402_initialize
Initialized == op = "cia402_initialize"

\* C11: cia402_initialize always leaves a record with state NOT_READY_TO_SWITCH_ON,
\* NO_TRANSITION, all four flags 0 and prevflags equal to the flags, its two
\* pointers bound to the caller's status word and link status slots; it does not
\* write the status word.
C11_InitializeResult ==
  /\ [](Initialized =>
          /\ axis.state = NOT_READY_TO_SWITCH_ON
          /\ axis.transition = NO_TRANSITION
          /\ axis.flags = Flags(0, 0, 0, 0)
          /\ axis.prevflags = axis.flags
          /\ axis.statusword = StatuswordSlot
          /\ axis.ALstatus = ALstatusSlot)
  /\ [][Initialized' => mem' = mem]_vars

\* cia402_initialize called on a record that had reached OPERATION_ENABLED: the
\* status word still holds that pattern
C11_Witness ==
  /\ Initialized
  /\ axis.state = NOT_READY_TO_SWITCH_ON
  /\ StatusWord = OPERATION_ENABLED
  /\ axis.prevflags = Flags(0, 0, 0, 0)

(* ------------------------------------------------------------------ *)
(* C12                                                                  *)
(* ------------------------------------------------------------------ *)
\* C12: end-to-end scenario, link status AL_STATUS_OP at every call.  After
\* cia402_initialize the state is NOT_READY_TO_SWITCH_ON; the calls that follow
\* give SWITCH_ON_DISABLED, then (SHUTDOWN word) READY_TO_SWITCH_ON, then
\* (SWITCH_ON + SWITCH_ON_ENABLE word) OPERATION_ENABLED with the combined tag and
\* flags 0,1,1,0, then (QUICK_STOP word) QUICK_STOP_ACTIVE, then (DISABLE_VOLTAGE
\* word) SWITCH_ON_DISABLED with flags 1,0,0,1.
C12_EndToEndScenario ==
  /\ run.scen = 0 => axis.state = NOT_READY_TO_SWITCH_ON
  /\ run.scen = 1 => axis.state = SWITCH_ON_DISABLED
  /\ run.scen = 2 => axis.state = READY_TO_SWITCH_ON
  /\ run.scen = 3 =>
       /\ axis.state = OPERATION_ENABLED
       /\ axis.transition = "READY_TO_SWITCH_ON_TO_OPERATION_ENABLED"
       /\ axis.flags = Flags(0, 1, 1, 0)
  /\ run.scen = 4 => axis.state = QUICK_STOP_ACTIVE
  /\ run.scen = 5 =>
       /\ axis.state = SWITCH_ON_DISABLED
       /\ axis.flags = Flags(1, 0, 0, 1)

\* the scenario run to its end
C12_Witness ==
  /\ run.scen = 5
  /\ run.linkop
  /\ Stepped
  /\ entry.state = QUICK_STOP_ACTIVE
  /\ axis.state = SWITCH_ON_DISABLED
  /\ axis.flags = Flags(1, 0, 0, 1)

(* ------------------------------------------------------------------ *)
(* C13                                                                  *)
(* ------------------------------------------------------------------ *)
\* exactly one call since cia402_initialize, and it read AL_STATUS_OP
FirstStepLinkUp == Stepped /\ run.steps = 1 /\ run.linkop

\* C13 as stated: after cia402_initialize and one call with link status
\* AL_STATUS_OP the state is SWITCH_ON_DISABLED and the flags are
\* config_allowed 0, axis_func_enabled 0, hv_power_applied 0, brake_applied 1.
C13_AsStated ==
  FirstStepLinkUp =>
     /\ axis.state = SWITCH_ON_DISABLED
     /\ axis.flags = Flags(0, 0, 0, 1)

\* C13 amended: after cia402_initialize and one call with link status
\* AL_STATUS_OP the state is SWITCH_ON_DISABLED and the flags are
\* config_allowed 1, axis_func_enabled 0, hv_power_applied 0, brake_applied 1
\* (the SWITCH_ON_DISABLED row of the flag table).
C13_FirstStepFlags ==
  FirstStepLinkUp =>
     /\ axis.state = SWITCH_ON_DISABLED
     /\ axis.flags = Flags(1, 0, 0, 1)

C13_Witness ==
  /\ FirstStepLinkUp
  /\ entry.state = NOT_READY_TO_SWITCH_ON
  /\ axis.state = SWITCH_ON_DISABLED
  /\ axis.flags.config_allowed = 1

(* ------------------------------------------------------------------ *)
(* C14                                                                  *)
(* ------------------------------------------------------------------ *)
\* the last call read a link status other than AL_STATUS_OP
SteppedLinkDown == Stepped /\ LinkStatus # AL_STATUS_OP

\* the last call set hv_power_applied or axis_func_enabled that was 0 before
PowerRaised ==
  \/ axis.prevflags.hv_power_applied = 0 /\ axis.flags.hv_power_applied = 1
  \/ axis.prevflags.axis_func_enabled = 0 /\ axis.flags.axis_func_enabled = 1

\* C14 as stated: in no call made while the link status is not AL_STATUS_OP does
\* hv_power_applied or axis_func_enabled go from 0 (prevflags) to 1 (flags), and no
\* such call enters SWITCHED_ON or OPERATION_ENABLED from SWITCH_ON_DISABLED or
\* READY_TO_SWITCH_ON.
C14_AsStated ==
  SteppedLinkDown =>
     /\ ~PowerRaised
     /\ entry.state \in {SWITCH_ON_DISABLED, READY_TO_SWITCH_ON} =>
          axis.state \notin {SWITCHED_ON, OPERATION_ENABLED}

\* C14 amended: the link status gates the start of the power-up sequence only.  A
\* call made while the link status is not AL_STATUS_OP never leaves
\* NOT_READY_TO_SWITCH_ON and never enters SWITCHED_ON or OPERATION_ENABLED from
\* NOT_READY_TO_SWITCH_ON or SWITCH_ON_DISABLED; hv_power_applied or
\* axis_func_enabled go from 0 to 1 in such a call only from READY_TO_SWITCH_ON
\* (SWITCH_ON command) or SWITCHED_ON (ENABLE_OPERATION command), whose guards do
\* not read the link status.
C14_LinkGatesStartOnly ==
  SteppedLinkDown =>
     /\ entry.state = NOT_READY_TO_SWITCH_ON => axis.state = NOT_READY_TO_SWITCH_ON
     /\ entry.state \in {NOT_READY_TO_SWITCH_ON, SWITCH_ON_DISABLED} =>
          /\ axis.state \notin {SWITCHED_ON, OPERATION_ENABLED}
          /\ ~PowerRaised
     /\ PowerRaised =>
          \/ entry.state = READY_TO_SWITCH_ON /\ IsSwitchOn(entry.controlword)
          \/ entry.state = SWITCHED_ON /\ IsEnableOperation(entry.controlword)

\* a call with the link down that applied high voltage from READY_TO_SWITCH_ON
C14_Witness ==
  /\ SteppedLinkDown
  /\ entry.state = READY_TO_SWITCH_ON
  /\ IsSwitchOn(entry.controlword)
  /\ axis.state = SWITCHED_ON
  /\ axis.prevflags.hv_power_applied = 0
  /\ axis.flags.hv_power_applied = 1

C16_AsStated ==
  Stepped =>
     /\ swlog = <<axis.state>>
     /\ StatusWord = axis.state

(* ------------------------------------------------------------------ *)
(* C17                                                                  *)
(* ------------------------------------------------------------------ *)
\* C17: while the link status is AL_STATUS_OP, SWITCH_ON_DISABLED is never held.  A
\* call from SWITCH_ON_DISABLED with the link operational goes to
\* READY_TO_SWITCH_ON for every control word (one matching DISABLE_VOLTAGE
\* included); so of two consecutive calls with the link operational the second
\* never leaves SWITCH_ON_DISABLED after the first left it, and after
\* cia402_initialize and exactly two calls with the link operational the state is
\* READY_TO_SWITCH_ON whatever the control words.
C17_SwitchOnDisabledNotHeldWhileLinkUp ==
  /\ []((Stepped /\ entry.state = SWITCH_ON_DISABLED /\ LinkStatus = AL_STATUS_OP) =>
          (axis.state = READY_TO_SWITCH_ON
           /\ axis.transition = "SWITCH_ON_DISABLED_TO_READY_TO_SWITCH_ON"))
  /\ []((Stepped /\ run.steps = 2 /\ run.linkop) => axis.state = READY_TO_SWITCH_ON)
  /\ [][(Stepped /\ axis.state = SWITCH_ON_DISABLED /\ Stepped' /\ LinkStatus' = AL_STATUS_OP)
          => axis'.state # SWITCH_ON_DISABLED]_vars

\* the second call after cia402_initialize, link operational at both, with a
\* DISABLE_VOLTAGE word
C17_Witness ==
  /\ Stepped
  /\ run.steps = 2
  /\ run.linkop
  /\ entry.state = SWITCH_ON_DISABLED
  /\ IsDisableVoltage(entry.controlword)
  /\ axis.state = READY_TO_SWITCH_ON

(* ------------------------------------------------------------------ *)
(* C18                                                                  *)
(* ------------------------------------------------------------------ *)
\* C18: from cia402_initialize, under any calls with any control words and link
\* status values, the state is never FAULT_REACTION_ACTIVE and never FAULT, on
\* entry to a call or as its result; so FAULT_REACTION_ACTIVE_TO_FAULT and
\* FAULT_TO_SWITCH_ON_DISABLED are never recorded and the flags of FAULT (1,0,0,0)
\* never occur.
C18_FaultStatesUnreachable ==
  /\ axis.state \notin {FAULT_REACTION_ACTIVE, FAULT}
  /\ Stepped => entry.state \notin {FAULT_REACTION_ACTIVE, FAULT}
  /\ axis.transition \notin {"FAULT_REACTION_ACTIVE_TO_FAULT", "FAULT_TO_SWITCH_ON_DISABLED"}
  /\ axis.flags # Flags(1, 0, 0, 0)

\* the link lost in OPERATION_ENABLED, with a FAULT_RESET word: the call goes to
\* SWITCH_ON_DISABLED, no fault state
C18_Witness ==
  /\ Stepped
  /\ entry.state = OPERATION_ENABLED
  /\ LinkStatus # AL_STATUS_OP
  /\ IsFaultReset(entry.controlword)
  /\ axis.state = SWITCH_ON_DISABLED
  /\ axis.transition = "OPERATION_ENABLED_TO_SWITCH_ON_DISABLED"

(* ------------------------------------------------------------------ *)
(* C19                                                                  *)
(* ------------------------------------------------------------------ *)
\* C19: link loss disables the axis function within one call.  For every control
\* word, a call from OPERATION_ENABLED made with the link status not AL_STATUS_OP
\* results in SWITCHED_ON, READY_TO_SWITCH_ON or SWITCH_ON_DISABLED, never in
\* OPERATION_ENABLED or QUICK_STOP_ACTIVE, so axis_func_enabled is 0 and
\* brake_applied is 1 after it.
C19_LinkLossLeavesOperationEnabled ==
  (SteppedLinkDown /\ entry.state = OPERATION_ENABLED) =>
     /\ axis.state \in {SWITCHED_ON, READY_TO_SWITCH_ON, SWITCH_ON_DISABLED}
     /\ axis.state \notin {OPERATION_ENABLED, QUICK_STOP_ACTIVE}
     /\ axis.flags.axis_func_enabled = 0
     /\ axis.flags.brake_applied = 1

\* the link lost while the control word still says ENABLE_OPERATION
C19_Witness ==
  /\ SteppedLinkDown
  /\ entry.state = OPERATION_ENABLED
  /\ IsEnableOperation(entry.controlword)
  /\ entry.flags = Flags(0, 1, 1, 0)
  /\ axis.state = SWITCH_ON_DISABLED
  /\ axis.flags = Flags(1, 0, 0, 1)

(* ------------------------------------------------------------------ *)
(* C20                                                                  *)
(* ------------------------------------------------------------------ *)
\* C20: power-up ordering.  In any run from cia402_initialize, hv_power_applied
\* goes from 0 to 1 only in a call that started in READY_TO_SWITCH_ON, and
\* OPERATION_ENABLED is entered only from READY_TO_SWITCH_ON or SWITCHED_ON; so a
\* run that is in OPERATION_ENABLED has passed through SWITCH_ON_DISABLED and then
\* READY_TO_SWITCH_ON and has made at least three calls since cia402_initialize.
C20_PowerUpOrdering ==
  /\ (Stepped /\ axis.prevflags.hv_power_applied = 0 /\ axis.flags.hv_power_applied = 1) =>
       entry.state = READY_TO_SWITCH_ON
  /\ (Stepped /\ axis.state = OPERATION_ENABLED /\ entry.state # OPERATION_ENABLED) =>
       entry.state \in {READY_TO_SWITCH_ON, SWITCHED_ON}
  /\ axis.state = OPERATION_ENABLED =>
       /\ run.path = 2
       /\ run.steps >= 3

\* the shortest run to OPERATION_ENABLED: the third call, from READY_TO_SWITCH_ON
C20_Witness ==
  /\ Stepped
  /\ run.steps = 3
  /\ run.path = 2
  /\ entry.state = READY_TO_SWITCH_ON
  /\ axis.state = OPERATION_ENABLED
  /\ axis.prevflags.hv_power_applied = 0
  /\ axis.flags.hv_power_applied = 1
====
